---- MODULE Spec2Model ----
(***************************************************************************)
(* AI Code Explainer (src/main.py): the ingestion-and-summarization        *)
(* pipeline.  fetch_files walks the repository tree served by the host,    *)
(* main summarizes every fetched file, aggregates the summaries, writes    *)
(* SUMMARY.md and optionally publishes it with push_summary_to_github.     *)
(*                                                                         *)
(* The host and the text-generation backend are the environment: every     *)
(* request the program makes is answered by a nondeterministic choice      *)
(* among the answers they can give.                                        *)
(***************************************************************************)
EXTENDS Integers, Sequences, FiniteSets, TLC

VARIABLES
    repo,        \* the host's tree: [n, desc, parent, single]
    cfg,         \* main's configuration: [filter, push, token]
    pc,          \* position of main
    stack,       \* call stack of fetch_recursive
    files,       \* fetch_files: files
    failed,      \* requests of fetch_files that failed, in order: <<key, entry, how>>
    llm,         \* whether OllamaLLM(...) was constructed
    idx,         \* main: index of the file being summarized (enumerate)
    summaries,   \* main: summaries
    calls,       \* backend calls made so far: [op, arg, ok]
    repo_summary,\* main: repo_summary (NoText until step 4 succeeds)
    local,       \* the local file SUMMARY.md (NoText: not written)
    remote,      \* the host's SUMMARY.md: [exists, sha, content]
    http,        \* requests sent by push_summary_to_github, in order
    pushed,      \* push_summary_to_github returned "True" or "False" (None: not yet)
    others,      \* writes of SUMMARY.md by other actors so far
    raced,       \* another actor wrote between the publisher's GET and PUT
    reported,    \* error reports printed so far (a set of tags)
    \* pr_generator.py and the MCP server it talks to
    tools,       \* the tool list the server serves
    bundled,     \* the server is src/ollama_server.py
    ppc,         \* position of the client
    session,     \* requests the server received in this session, in order
    request,     \* the call_tool request under way: <<>> or <<[name, arguments]>>
    reply,       \* the answer to it: <<>> or <<[raised, rpc_error, content]>>
    chats,       \* ollama.chat calls made by the server: [model, content, ok]
    printed      \* what the client printed, in order

PrVars == <<tools, bundled, ppc, session, request, reply, chats, printed>>

vars == <<repo, cfg, pc, stack, files, failed, llm, idx, summaries, calls,
          repo_summary, local, remote, http, pushed, others, raced, reported,
          PrVars>>

\* Python's None where a text or a list is expected, and a text not yet there
None == "None"
NoText == <<>>

-----------------------------------------------------------------------------
(* Bounds of the model *)

\* entries in the host's tree
MaxEntries == 3
\* events of one run that the environment may add to a run in which every
\* request succeeds: failed requests, failed backend calls, unusual answers of
\* the host, writes of SUMMARY.md by other actors
MaxFaults == 2
\* characters of a file name, and of an inline payload, in the runs of
\* fetch_files on one file entry (SpecFile)
MaxName == 4
MaxPayload == 4
\* tools in the list of an MCP server (SpecPr)
MaxTools == 3

-----------------------------------------------------------------------------
(* The host's tree *)

\* characters of a base64 text: 0..63 are the characters of the alphabet by
\* their value, Pad is "=", Lf stands for a character outside the alphabet
\* (the line feeds of the host's payloads)
Pad == 64
Lf == 65

\* file descriptors the host serves (spec section 6, read protocol).
\* download_url is "absent" (no such key), "null" or "url"; content is <<>>
\* (no such key) or <<p>> for the base64 text p.
DirDesc == [type |-> "dir", name |-> <<"s", "r", "c">>, download_url |-> "null", content |-> <<>>]
PyDesc == [type |-> "file", name |-> <<"a", ".", "p", "y">>, download_url |-> "url", content |-> <<>>]
MdDesc == [type |-> "file", name |-> <<"b", ".", "m", "d">>, download_url |-> "absent",
           content |-> <<<<16, 16, Pad, Pad, Lf>>>>]
LinkDesc == [type |-> "symlink", name |-> <<"l", "n">>, download_url |-> "null", content |-> <<>>]

Descriptors == {DirDesc, PyDesc, MdDesc, LinkDesc}

Entries(r) == 1..r.n

\* a finite acyclic tree.  Entries are numbered so that a directory comes before
\* what it holds and the entries of one listing are in listing order (every
\* ordered tree has such a numbering); the parent of an entry is a directory or
\* 0, the root.
WellFormed(r) ==
    /\ \A e \in Entries(r) :
          /\ r.parent[e] < e
          /\ r.parent[e] # 0 => r.desc[r.parent[e]].type = "dir"
    /\ r.single => /\ r.n = 1
                   /\ r.desc[1].type = "file"

Repos ==
    UNION { { r \in [n : {n}, desc : [1..n -> Descriptors],
                     parent : [1..n -> 0..n], single : BOOLEAN] : WellFormed(r) }
            : n \in 0..MaxEntries }

RECURSIVE SeqOfSet(_)
\* the elements of a set of entries in ascending order
SeqOfSet(S) ==
    IF S = {} THEN <<>>
    ELSE LET m == CHOOSE x \in S : \A y \in S : x <= y
         IN <<m>> \o SeqOfSet(S \ {m})

\* the JSON array the host answers for the listing locator of d (0: the root)
Listing(r, d) == SeqOfSet({e \in Entries(r) : r.parent[e] = d})

-----------------------------------------------------------------------------
(* base64 and UTF-8, as Python's base64 module and str/bytes do them.  A text   *)
(* is the sequence of its code points, a byte string the sequence of its bytes. *)

RECURSIVE a2b_base64(_, _, _, _, _, _)
\* base64.b64decode(p) from character i on (binascii.a2b_base64, not strict):
\* characters outside the alphabet are skipped, padding ends the data once it
\* completes a quad, and data that ends inside a quad is an error
a2b_base64(p, i, quad_pos, leftchar, pads, out) ==
    IF i > Len(p) THEN [ok |-> quad_pos = 0, bytes |-> out]
    ELSE IF p[i] = Pad
    THEN IF quad_pos >= 2 /\ quad_pos + pads + 1 >= 4
         THEN [ok |-> TRUE, bytes |-> out]
         ELSE a2b_base64(p, i + 1, quad_pos, leftchar,
                         IF quad_pos >= 2 THEN pads + 1 ELSE pads, out)
    ELSE IF p[i] > Pad
    THEN a2b_base64(p, i + 1, quad_pos, leftchar, pads, out)
    ELSE CASE quad_pos = 0 -> a2b_base64(p, i + 1, 1, p[i], 0, out)
           [] quad_pos = 1 ->
                a2b_base64(p, i + 1, 2, p[i] % 16, 0,
                           Append(out, leftchar * 4 + p[i] \div 16))
           [] quad_pos = 2 ->
                a2b_base64(p, i + 1, 3, p[i] % 4, 0,
                           Append(out, leftchar * 16 + p[i] \div 4))
           [] quad_pos = 3 ->
                a2b_base64(p, i + 1, 0, 0, 0, Append(out, leftchar * 64 + p[i]))

b64decode(p) == a2b_base64(p, 1, 0, 0, 0, <<>>)

RECURSIVE b64encode(_)
\* base64.b64encode(b): three bytes to four characters, the rest padded
b64encode(b) ==
    IF Len(b) = 0 THEN <<>>
    ELSE IF Len(b) = 1
    THEN <<b[1] \div 4, (b[1] % 4) * 16, Pad, Pad>>
    ELSE IF Len(b) = 2
    THEN <<b[1] \div 4, (b[1] % 4) * 16 + b[2] \div 16, (b[2] % 16) * 4, Pad>>
    ELSE <<b[1] \div 4, (b[1] % 4) * 16 + b[2] \div 16,
           (b[2] % 16) * 4 + b[3] \div 64, b[3] % 64>>
         \o b64encode(SubSeq(b, 4, Len(b)))

\* b[k] is a continuation byte within lo..hi
Cont(b, k, lo, hi) == k <= Len(b) /\ b[k] >= lo /\ b[k] <= hi

RECURSIVE utf8_decode(_, _, _)
\* bytes.decode('utf-8') from byte i on: no overlong forms, no surrogates,
\* nothing above U+10FFFF
utf8_decode(b, i, out) ==
    IF i > Len(b) THEN [ok |-> TRUE, text |-> out]
    ELSE LET c == b[i] IN
      IF c < 128 THEN utf8_decode(b, i + 1, Append(out, c))
      ELSE IF c >= 194 /\ c <= 223 /\ Cont(b, i + 1, 128, 191)
      THEN utf8_decode(b, i + 2, Append(out, (c - 192) * 64 + (b[i + 1] - 128)))
      ELSE IF /\ c >= 224 /\ c <= 239
              /\ Cont(b, i + 1, IF c = 224 THEN 160 ELSE 128,
                                IF c = 237 THEN 159 ELSE 191)
              /\ Cont(b, i + 2, 128, 191)
      THEN utf8_decode(b, i + 3, Append(out, (c - 224) * 4096 + (b[i + 1] - 128) * 64
                                            + (b[i + 2] - 128)))
      ELSE IF /\ c >= 240 /\ c <= 244
              /\ Cont(b, i + 1, IF c = 240 THEN 144 ELSE 128,
                                IF c = 244 THEN 143 ELSE 191)
              /\ Cont(b, i + 2, 128, 191)
              /\ Cont(b, i + 3, 128, 191)
      THEN utf8_decode(b, i + 4, Append(out, (c - 240) * 262144 + (b[i + 1] - 128) * 4096
                                            + (b[i + 2] - 128) * 64 + (b[i + 3] - 128)))
      ELSE [ok |-> FALSE, text |-> out]

RECURSIVE utf8_encode(_)
\* str.encode('utf-8')
utf8_encode(t) ==
    IF t = <<>> THEN <<>>
    ELSE LET c == t[1]
             head ==
               IF c < 128 THEN <<c>>
               ELSE IF c < 2048 THEN <<192 + c \div 64, 128 + (c % 64)>>
               ELSE IF c < 65536
               THEN <<224 + c \div 4096, 128 + ((c \div 64) % 64), 128 + (c % 64)>>
               ELSE <<240 + c \div 262144, 128 + ((c \div 4096) % 64),
                      128 + ((c \div 64) % 64), 128 + (c % 64)>>
         IN head \o utf8_encode(Tail(t))

\* DecodeInline with the bytes decoded as Latin-1, one character for a byte
DecodeInlineLatin1(p) ==
    LET d == b64decode(p)
    IN [ok |-> d.ok, text |-> d.bytes]

\* main.py:86-87: base64.b64decode(item['content']).decode('utf-8'); not ok
\* when either step raises (binascii.Error, UnicodeDecodeError)
DecodeInline(p) ==
    LET d == b64decode(p)
        u == utf8_decode(d.bytes, 1, <<>>)
    IN [ok |-> d.ok /\ u.ok, text |-> u.text]

\* the text a download URL serves, and the body of an error answer
UrlText == <<116>>
ErrorBody == <<101>>

-----------------------------------------------------------------------------
(* fetch_files *)

RECURSIVE LastDot(_, _)
\* index of the last "." among the first k characters of s, 0 when none
LastDot(s, k) ==
    IF k = 0 THEN 0
    ELSE IF s[k] = "." THEN k ELSE LastDot(s, k - 1)

\* SplitExt without the rule for leading dots: from the last dot in every case
SplitExtLastDot(s) ==
    LET d == LastDot(s, Len(s))
    IN IF d # 0 THEN SubSeq(s, d, Len(s)) ELSE <<>>

\* os.path.splitext(name)[1]: from the last dot, unless only dots precede it
SplitExt(s) ==
    LET d == LastDot(s, Len(s))
    IN IF d # 0 /\ \E k \in 1..(d - 1) : s[k] # "."
       THEN SubSeq(s, d, Len(s))
       ELSE <<>>

InList(x, list) == \E k \in 1..Len(list) : list[k] = x

PyExt == <<".", "p", "y">>

\* values of file_extensions: None, or a list of extensions
NoFilter == [given |-> FALSE, list |-> <<>>]
ExtList(l) == [given |-> TRUE, list |-> l]
Filters == {NoFilter, ExtList(<<>>), ExtList(<<PyExt>>)}

\* main.py:75-78 negated: the file entry is not skipped by the filter
Keeps(filter, name) ==
    IF filter.given /\ filter.list # <<>>
    THEN InList(SplitExt(name), filter.list)
    ELSE TRUE

Top == stack[Len(stack)]
Pop == SubSeq(stack, 1, Len(stack) - 1)
SetTop(f) == [stack EXCEPT ![Len(stack)] = f]

Fetching == pc = "fetch" /\ stack # <<>>
InLoop == Fetching /\ Top.phase = "loop" /\ Top.i <= Len(Top.items)
Item == Top.items[Top.i]
Advance == SetTop([Top EXCEPT !.i = @ + 1])

\* the failed calls among the backend calls made so far
BackendFailures == Cardinality({k \in 1..Len(calls) : ~calls[k].ok})

\* the events of this run that count against MaxFaults
Faults ==
    Len(failed) + BackendFailures + others
    + Cardinality({k \in 1..Len(http) : http[k].fault})
    + (IF "llm" \in reported THEN 1 ELSE 0)

CanFault == Faults < MaxFaults

Record(e, content) == [name |-> repo.desc[e].name, path |-> e, content |-> content]

MainVars == <<llm, idx, summaries, calls, repo_summary, local, reported>>
PublishVars == <<remote, http, pushed, others, raced>>

\* the JSON body the host answers for the locator of d (0: the root): an array
\* of descriptors, or, for a root that is one file, the descriptor itself, a
\* JSON object (dict)
Body(r, d) ==
    IF r.single /\ d = 0
    THEN [dict |-> TRUE, elems |-> <<1>>]
    ELSE [dict |-> FALSE, elems |-> Listing(r, d)]

\* Normalise with the object left as it is
NormaliseNever(data) == data

\* main.py:69-70: a dict whose type is 'file' becomes the list of that dict
Normalise(data) ==
    IF data.dict /\ repo.desc[data.elems[1]].type = "file"
    THEN [dict |-> FALSE, elems |-> data.elems]
    ELSE data

\* main.py:64-72: the listing request of one fetch_recursive call
FetchRequest ==
    /\ Fetching /\ Top.phase = "get"
    /\ \/ LET data == Normalise(Body(repo, Top.loc))
          IN IF data.dict
             \* for item in data runs over the keys of the dict: item['type']
             \* raises TypeError, which nothing catches
             THEN /\ pc' = "crashed"
                  /\ failed' = Append(failed, <<"data", Top.loc, "uncaught">>)
                  /\ UNCHANGED stack
             ELSE /\ stack' = SetTop([Top EXCEPT !.phase = "loop", !.items = data.elems])
                  /\ UNCHANGED <<pc, failed>>
       \* requests.get or raise_for_status raises a RequestException (so does
       \* response.json() with requests 2.27 or later): main.py:101 catches it
       \/ /\ CanFault
          /\ stack' = Pop
          /\ failed' = Append(failed, <<"url", Top.loc>>)
          /\ UNCHANGED pc
       \* a 2xx body the code cannot read: a JSON object that is not a file
       \* descriptor (TypeError at item['type']), a descriptor lacking a key
       \* (KeyError), a body that is not JSON with requests before 2.27
       \* (ValueError).  None is a RequestException; main has no handler either.
       \/ /\ CanFault
          /\ pc' = "crashed"
          /\ failed' = Append(failed, <<"url", Top.loc, "uncaught">>)
          /\ UNCHANGED stack
    /\ UNCHANGED <<PrVars, repo, cfg, files, MainVars, PublishVars>>

\* what main.py:80-89 gives as content for file entry e when its request, if
\* one is made, answers `how`
ResolveContent(e, how) ==
    IF repo.desc[e].download_url # "absent"
    THEN IF how = "ok" THEN UrlText ELSE ErrorBody
    ELSE IF repo.desc[e].content # <<>>
    THEN DecodeInline(repo.desc[e].content[1]).text
    ELSE <<>>

\* main.py:73-95: one file entry of the loop
FetchFile ==
    /\ InLoop /\ repo.desc[Item].type = "file"
    /\ IF ~Keeps(cfg.filter, repo.desc[Item].name)
       THEN /\ stack' = Advance
            /\ UNCHANGED <<pc, files, failed>>
       ELSE IF repo.desc[Item].download_url = "null"
       \* 'download_url' in item holds, requests.get(None) raises MissingSchema,
       \* a RequestException: the except of this call (main.py:101) ends it
       THEN /\ stack' = Pop
            /\ failed' = Append(failed, <<"download_url", Item, "raise">>)
            /\ UNCHANGED <<pc, files>>
       ELSE IF repo.desc[Item].download_url = "url"
       THEN \/ /\ files' = Append(files, Record(Item, ResolveContent(Item, "ok")))
               /\ stack' = Advance
               /\ UNCHANGED <<pc, failed>>
            \* an error status: requests.get returns, nothing checks the status
            \/ /\ CanFault
               /\ files' = Append(files, Record(Item, ResolveContent(Item, "status")))
               /\ stack' = Advance
               /\ failed' = Append(failed, <<"download_url", Item, "status">>)
               /\ UNCHANGED pc
            \* requests.get raises: the except of this call (main.py:101) ends it
            \/ /\ CanFault
               /\ stack' = Pop
               /\ failed' = Append(failed, <<"download_url", Item, "raise">>)
               /\ UNCHANGED <<pc, files>>
       ELSE IF /\ repo.desc[Item].content # <<>>
               /\ ~DecodeInline(repo.desc[Item].content[1]).ok
       \* binascii.Error or UnicodeDecodeError: not a RequestException, so it
       \* leaves fetch_files, and main, which has no handler around the call
       THEN /\ pc' = "crashed"
            /\ failed' = Append(failed, <<"content", Item, "uncaught">>)
            /\ UNCHANGED <<stack, files>>
       ELSE /\ files' = Append(files, Record(Item, ResolveContent(Item, "ok")))
            /\ stack' = Advance
            /\ UNCHANGED <<pc, failed>>
    /\ UNCHANGED <<PrVars, repo, cfg, MainVars, PublishVars>>

\* FetchDir with the recursive call left out: a directory entry is passed over
FetchDirShallow ==
    /\ InLoop /\ repo.desc[Item].type = "dir"
    /\ stack' = Advance
    /\ UNCHANGED <<PrVars, repo, cfg, pc, files, failed, MainVars, PublishVars>>

\* FetchDir with the directory put off until the listing that holds it is done
FetchDirDeferred ==
    /\ InLoop /\ repo.desc[Item].type = "dir"
    /\ stack' = <<[loc |-> Item, phase |-> "get", items |-> <<>>, i |-> 1]>> \o Advance
    /\ UNCHANGED <<PrVars, repo, cfg, pc, files, failed, MainVars, PublishVars>>

\* main.py:97-99: a directory entry: the recursive call
FetchDir ==
    /\ InLoop /\ repo.desc[Item].type = "dir"
    /\ stack' = Append(Advance, [loc |-> Item, phase |-> "get", items |-> <<>>, i |-> 1])
    /\ UNCHANGED <<PrVars, repo, cfg, pc, files, failed, MainVars, PublishVars>>

\* main.py:72-99: an entry that is neither file nor dir
FetchOther ==
    /\ InLoop /\ repo.desc[Item].type \notin {"file", "dir"}
    /\ stack' = Advance
    /\ UNCHANGED <<PrVars, repo, cfg, pc, files, failed, MainVars, PublishVars>>

\* main.py:72: the loop of one call is exhausted, the call returns
FetchReturn ==
    /\ Fetching /\ Top.phase = "loop" /\ Top.i > Len(Top.items)
    /\ stack' = Pop
    /\ UNCHANGED <<PrVars, repo, cfg, pc, files, failed, MainVars, PublishVars>>

\* FetchDone without the early return of main.py:307-309
FetchDoneNoReturn ==
    /\ pc = "fetch" /\ stack = <<>>
    /\ pc' = "init"
    /\ UNCHANGED <<PrVars, repo, cfg, stack, files, failed, llm, idx, summaries, calls,
                   repo_summary, local, PublishVars, reported>>

\* FetchDone not waiting for fetch_recursive to return: main goes on as soon as
\* a record is there
FetchDoneEager ==
    /\ pc = "fetch" /\ (stack = <<>> \/ files # <<>>)
    /\ IF files = <<>>
       THEN /\ pc' = "done"
            /\ reported' = reported \cup {"no files"}
       ELSE /\ pc' = "init"
            /\ UNCHANGED reported
    /\ UNCHANGED <<PrVars, repo, cfg, stack, files, failed, llm, idx, summaries, calls,
                   repo_summary, local, PublishVars>>

\* main.py:304-309: fetch_files returned
FetchDone ==
    /\ pc = "fetch" /\ stack = <<>>
    /\ IF files = <<>>
       THEN /\ pc' = "done"
            /\ reported' = reported \cup {"no files"}
       ELSE /\ pc' = "init"
            /\ UNCHANGED reported
    /\ UNCHANGED <<PrVars, repo, cfg, stack, files, failed, llm, idx, summaries, calls,
                   repo_summary, local, PublishVars>>

-----------------------------------------------------------------------------
(* main: steps 2 to 5 *)

FetchVars == <<stack, files, failed>>

\* main.py:313-322: OllamaLLM(...) in its try
InitLLM ==
    /\ pc = "init"
    /\ \/ /\ llm' = TRUE
          /\ idx' = 1
          /\ pc' = "summarize"
          /\ UNCHANGED reported
       \/ /\ CanFault
          /\ pc' = "done"
          /\ reported' = reported \cup {"llm"}
          /\ UNCHANGED <<llm, idx>>
    /\ UNCHANGED <<PrVars, repo, cfg, FetchVars, summaries, calls, repo_summary, local,
                   PublishVars>>

\* summarize_file (main.py:110-156): the text the backend gives for a file
SummaryText(file) == <<"summary", file.path, file.content>>

\* main.py:331-335: the entry appended for a summarized file
SummaryEntry(file) ==
    [filename |-> file.name, path |-> file.path, summary |-> SummaryText(file)]

\* SummarizeFile with a placeholder entry appended for a file whose call failed
SummarizeFilePlaceholder ==
    /\ pc = "summarize" /\ idx <= Len(files)
    /\ \/ /\ summaries' = Append(summaries, SummaryEntry(files[idx]))
          /\ calls' = Append(calls, [op |-> "summarize", arg |-> files[idx].path, ok |-> TRUE])
          /\ UNCHANGED reported
       \/ /\ CanFault
          /\ calls' = Append(calls, [op |-> "summarize", arg |-> files[idx].path, ok |-> FALSE])
          /\ reported' = reported \cup {"summarize"}
          /\ summaries' = Append(summaries, [filename |-> files[idx].name,
                                 path |-> files[idx].path, summary |-> <<"failed">>])
    /\ idx' = idx + 1
    /\ UNCHANGED <<PrVars, repo, cfg, pc, FetchVars, llm, repo_summary, local, PublishVars>>

\* SummarizeFile calling again for a file whose call failed
SummarizeFileRetry ==
    /\ pc = "summarize" /\ idx <= Len(files)
    /\ \/ /\ summaries' = Append(summaries, SummaryEntry(files[idx]))
          /\ calls' = Append(calls, [op |-> "summarize", arg |-> files[idx].path, ok |-> TRUE])
          /\ idx' = idx + 1
          /\ UNCHANGED reported
       \/ /\ CanFault
          /\ calls' = Append(calls, [op |-> "summarize", arg |-> files[idx].path, ok |-> FALSE])
          /\ reported' = reported \cup {"summarize"}
          /\ UNCHANGED <<summaries, idx>>
    /\ UNCHANGED <<PrVars, repo, cfg, pc, FetchVars, llm, repo_summary, local, PublishVars>>

\* main.py:327-339: one iteration of the loop over repo_files
SummarizeFile ==
    /\ pc = "summarize" /\ idx <= Len(files)
    /\ \/ /\ summaries' = Append(summaries, SummaryEntry(files[idx]))
          /\ calls' = Append(calls, [op |-> "summarize", arg |-> files[idx].path, ok |-> TRUE])
          /\ UNCHANGED reported
       \/ /\ CanFault
          /\ calls' = Append(calls, [op |-> "summarize", arg |-> files[idx].path, ok |-> FALSE])
          /\ reported' = reported \cup {"summarize"}
          /\ UNCHANGED summaries
    /\ idx' = idx + 1
    /\ UNCHANGED <<PrVars, repo, cfg, pc, FetchVars, llm, repo_summary, local, PublishVars>>

\* Aggregate without the return of main.py:350: a failed step 4 goes on to step 5
AggregateNoReturn ==
    /\ pc = "summarize" /\ idx > Len(files)
    /\ \/ /\ calls' = Append(calls, [op |-> "aggregate", arg |-> summaries, ok |-> TRUE])
          /\ repo_summary' = <<"repo summary", summaries>>
          /\ UNCHANGED reported
       \/ /\ CanFault
          /\ calls' = Append(calls, [op |-> "aggregate", arg |-> summaries, ok |-> FALSE])
          /\ reported' = reported \cup {"aggregate"}
          /\ UNCHANGED repo_summary
    /\ pc' = "write"
    /\ UNCHANGED <<PrVars, repo, cfg, FetchVars, llm, idx, summaries, local, PublishVars>>

\* main.py:343-350: step 4, generate_repo_summary in its try
Aggregate ==
    /\ pc = "summarize" /\ idx > Len(files)
    /\ \/ /\ calls' = Append(calls, [op |-> "aggregate", arg |-> summaries, ok |-> TRUE])
          /\ repo_summary' = <<"repo summary", summaries>>
          /\ pc' = "write"
          /\ UNCHANGED reported
       \/ /\ CanFault
          /\ calls' = Append(calls, [op |-> "aggregate", arg |-> summaries, ok |-> FALSE])
          /\ reported' = reported \cup {"aggregate"}
          /\ pc' = "done"
          /\ UNCHANGED repo_summary
    /\ UNCHANGED <<PrVars, repo, cfg, FetchVars, llm, idx, summaries, local, PublishVars>>

\* Assemble with the per-file sections in reverse order
AssembleReversed(overall, sums) ==
    <<"# Repository Summary", overall,
      [k \in 1..Len(sums) |-> <<sums[Len(sums) + 1 - k].filename,
                                 sums[Len(sums) + 1 - k].summary>>]>>

\* main.py:354-374: output_content
Assemble(overall, sums) ==
    <<"# Repository Summary", overall,
      [k \in 1..Len(sums) |-> <<sums[k].filename, sums[k].summary>>]>>

\* WriteLocal without the token check of main.py:384: publishing whenever asked
WriteLocalAnyToken ==
    /\ pc = "write"
    /\ local' = Assemble(repo_summary, summaries)
    /\ IF cfg.push
       THEN pc' = "get" /\ UNCHANGED reported
       ELSE pc' = "complete" /\ UNCHANGED reported
    /\ UNCHANGED <<PrVars, repo, cfg, FetchVars, llm, idx, summaries, calls, repo_summary,
                   PublishVars>>

\* main.py:376-396: step 5 and the decision of step 6
WriteLocal ==
    /\ pc = "write"
    /\ local' = Assemble(repo_summary, summaries)
    /\ IF cfg.push /\ cfg.token
       THEN pc' = "get" /\ UNCHANGED reported
       ELSE IF cfg.push
       THEN pc' = "complete" /\ reported' = reported \cup {"no token"}
       ELSE pc' = "complete" /\ UNCHANGED reported
    /\ UNCHANGED <<PrVars, repo, cfg, FetchVars, llm, idx, summaries, calls, repo_summary,
                   PublishVars>>

-----------------------------------------------------------------------------
(* push_summary_to_github and the host's SUMMARY.md *)

\* main.py:230: base64 of the UTF-8 bytes of the text
Encode(text) == <<"base64", text>>

\* PutBody with the hash token never added
PutBodyNoSha(text, get) ==
    [message |-> "Add AI-generated summary", content |-> Encode(text), branch |-> "main"]

\* main.py:236-253: the payload of the PUT after the response get of the GET
PutBody(text, get) ==
    LET data == [message |-> "Add AI-generated summary", content |-> Encode(text),
                 branch |-> "main"]
    IN IF get.status = 200 THEN data @@ [sha |-> get.sha] ELSE data

HasSha(body) == "sha" \in DOMAIN body

NewSha == remote.sha + 1

\* another actor creates or changes SUMMARY.md on the host
OtherWrite ==
    /\ pc \in {"get", "put"}
    /\ CanFault
    /\ remote' = [exists |-> TRUE, sha |-> NewSha, content |-> <<"other">>]
    /\ others' = others + 1
    /\ raced' = (raced \/ pc = "put")
    /\ UNCHANGED <<PrVars, repo, cfg, pc, FetchVars, MainVars, http, pushed>>

\* PublishGet going on to the PUT when the GET raised
PublishGetNoAbort ==
    /\ pc = "get"
    /\ \/ \* the request raises a RequestException
          /\ CanFault
          /\ http' = Append(http, [method |-> "GET", status |-> 0, fault |-> TRUE])
          /\ pc' = "put"
          /\ UNCHANGED <<pushed, reported>>
       \/ \* the file exists: 200 with its descriptor
          /\ remote.exists
          /\ http' = Append(http, [method |-> "GET", status |-> 200, sha |-> remote.sha,
                                   fault |-> FALSE])
          /\ pc' = "put"
          /\ UNCHANGED <<pushed, reported>>
       \/ \* 200 with a JSON object that has no sha: existing_file["sha"] raises KeyError
          /\ CanFault
          /\ http' = Append(http, [method |-> "GET", status |-> 200, fault |-> TRUE])
          /\ pc' = "crashed"
          /\ UNCHANGED <<pushed, reported>>
       \/ \* any other status: 404 for a missing file, 403 for one that is refused
          /\ remote.exists => CanFault
          /\ http' = Append(http, [method |-> "GET", fault |-> remote.exists,
                                   status |-> IF remote.exists THEN 403 ELSE 404])
          /\ pc' = "put"
          /\ UNCHANGED <<pushed, reported>>
    /\ UNCHANGED <<PrVars, repo, cfg, FetchVars, llm, idx, summaries, calls, repo_summary,
                   local, remote, others, raced>>

\* main.py:247-253 and 262-264: the GET and what is done with its response
PublishGet ==
    /\ pc = "get"
    /\ \/ \* the request raises a RequestException
          /\ CanFault
          /\ http' = Append(http, [method |-> "GET", status |-> 0, fault |-> TRUE])
          /\ pushed' = "False"
          /\ reported' = reported \cup {"push"}
          /\ pc' = "complete"
       \/ \* the file exists: 200 with its descriptor
          /\ remote.exists
          /\ http' = Append(http, [method |-> "GET", status |-> 200, sha |-> remote.sha,
                                   fault |-> FALSE])
          /\ pc' = "put"
          /\ UNCHANGED <<pushed, reported>>
       \/ \* 200 with a JSON object that has no sha: existing_file["sha"] raises KeyError
          /\ CanFault
          /\ http' = Append(http, [method |-> "GET", status |-> 200, fault |-> TRUE])
          /\ pc' = "crashed"
          /\ UNCHANGED <<pushed, reported>>
       \/ \* any other status: 404 for a missing file, 403 for one that is refused
          /\ remote.exists => CanFault
          /\ http' = Append(http, [method |-> "GET", fault |-> remote.exists,
                                   status |-> IF remote.exists THEN 403 ELSE 404])
          /\ pc' = "put"
          /\ UNCHANGED <<pushed, reported>>
    /\ UNCHANGED <<PrVars, repo, cfg, FetchVars, llm, idx, summaries, calls, repo_summary,
                   local, remote, others, raced>>

\* the host's rule for a PUT of SUMMARY.md: the hash token must match the file's
Accepts(body) ==
    IF remote.exists THEN HasSha(body) /\ body.sha = remote.sha
    ELSE ~HasSha(body)

\* the status of the host's answer under its rule: created, updated, or refused
\* (409 for a token that is not the file's, 422 for a missing one)
RuleStatus(body) ==
    IF Accepts(body) THEN (IF remote.exists THEN 200 ELSE 201)
    ELSE IF HasSha(body) THEN 409 ELSE 422

\* RaisesForStatus with the status check left out
RaisesForStatusNever(status) == FALSE

\* response.raise_for_status() (main.py:257) raises for this status
RaisesForStatus(status) == 400 <= status /\ status < 600

\* main.py:256-264: the PUT and the result of push_summary_to_github
PublishPut ==
    /\ pc = "put"
    /\ LET body == PutBody(local, http[Len(http)])
       IN \/ \* the request raises a RequestException
             /\ CanFault
             /\ http' = Append(http, [method |-> "PUT", status |-> 0, body |-> body,
                                      rule |-> FALSE, fault |-> TRUE])
             /\ pushed' = "False"
             /\ reported' = reported \cup {"push"}
             /\ UNCHANGED remote
          \/ \* the host applies its rule
             /\ LET s == RuleStatus(body)
                IN /\ http' = Append(http, [method |-> "PUT", status |-> s, body |-> body,
                                            rule |-> TRUE, fault |-> FALSE])
                   /\ remote' = IF Accepts(body)
                                 THEN [exists |-> TRUE, sha |-> NewSha, content |-> body.content]
                                 ELSE remote
                   /\ pushed' = IF RaisesForStatus(s) THEN "False" ELSE "True"
                   /\ reported' = IF RaisesForStatus(s) THEN reported \cup {"push"} ELSE reported
          \/ \* the host answers with another status and changes nothing
             /\ CanFault
             /\ \E s \in {304, 500} :
                   /\ http' = Append(http, [method |-> "PUT", status |-> s, body |-> body,
                                            rule |-> FALSE, fault |-> TRUE])
                   /\ pushed' = IF RaisesForStatus(s) THEN "False" ELSE "True"
                   /\ reported' = IF RaisesForStatus(s) THEN reported \cup {"push"} ELSE reported
             /\ UNCHANGED remote
    /\ pc' = "complete"
    /\ UNCHANGED <<PrVars, repo, cfg, FetchVars, llm, idx, summaries, calls, repo_summary,
                   local, others, raced>>

-----------------------------------------------------------------------------
Configs == [filter : Filters, push : BOOLEAN, token : BOOLEAN]

\* main.py:279-304: main is about to call fetch_files
Start ==
    /\ pc = "fetch"
    /\ stack = <<[loc |-> 0, phase |-> "get", items |-> <<>>, i |-> 1]>>
    /\ files = <<>>
    /\ failed = <<>>
    /\ llm = FALSE
    /\ idx = 0
    /\ summaries = <<>>
    /\ calls = <<>>
    /\ repo_summary = NoText
    /\ local = NoText
    /\ remote = [exists |-> FALSE, sha |-> 0, content |-> NoText]
    /\ http = <<>>
    /\ pushed = None
    /\ others = 0
    /\ raced = FALSE
    /\ reported = {}

\* pr_generator.py is not run
PrOff ==
    /\ tools = <<>>
    /\ bundled = FALSE
    /\ ppc = "off"
    /\ session = <<>>
    /\ request = <<>>
    /\ reply = <<>>
    /\ chats = <<>>
    /\ printed = <<>>

Init ==
    /\ repo \in Repos
    /\ cfg \in Configs
    /\ Start
    /\ PrOff

Next ==
    \/ FetchRequest
    \/ FetchFile
    \/ FetchDir
    \/ FetchOther
    \/ FetchReturn
    \/ FetchDone
    \/ InitLLM
    \/ SummarizeFile
    \/ Aggregate
    \/ WriteLocal
    \/ OtherWrite
    \/ PublishGet
    \/ PublishPut

Spec == Init /\ [][Next]_vars

-----------------------------------------------------------------------------
(* fetch_files on a listing of one file entry, over the names, locators and   *)
(* inline payloads the host can serve for it                                  *)

NameChars == {".", "p", "y", "Y"}
\* names of entries: not empty, and not of dots alone
Names ==
    {nm \in UNION {[1..k -> NameChars] : k \in 1..MaxName} :
        \E k \in 1..Len(nm) : nm[k] # "."}

\* "A", "Q", "R", "g", "o", "w", "=" and a line feed
PayloadChars == {0, 16, 17, 32, 40, 48, Pad, Lf}
Payloads == UNION {[1..k -> PayloadChars] : k \in 0..MaxPayload}

\* file entries that differ in their name
NameProbes ==
    {[type |-> "file", name |-> nm, download_url |-> "absent",
      content |-> <<<<16, 16, Pad, Pad>>>>] : nm \in Names}

\* file entries that differ in their locator and their inline payload
ContentProbes ==
    {[type |-> "file", name |-> <<"p", ".", "p", "y">>, download_url |-> u, content |-> c] :
        u \in {"absent", "null", "url"}, c \in {<<>>} \cup {<<p>> : p \in Payloads}}

\* values of file_extensions in these runs; the last list holds ".y" and the
\* empty extension
FileFilters ==
    {NoFilter, ExtList(<<>>), ExtList(<<PyExt>>), ExtList(<<<<".", "y">>, <<>>>>)}

InitFile ==
    /\ \E d \in NameProbes \cup ContentProbes :
          /\ repo \in [n : {1}, desc : {<<d>>}, parent : {<<0>>}, single : BOOLEAN]
          /\ cfg \in [filter : IF d \in NameProbes THEN FileFilters ELSE {NoFilter},
                       push : {FALSE}, token : {FALSE}]
    /\ Start
    /\ PrOff

NextFile ==
    \/ FetchRequest
    \/ FetchFile
    \/ FetchReturn
    \/ FetchDone

SpecFile == InitFile /\ [][NextFile]_vars

-----------------------------------------------------------------------------
(* pr_generator.py: generate_pr_description, and the MCP server it talks to: *)
(* src/ollama_server.py or another one                                       *)

PipelineVars == <<repo, cfg, pc, stack, files, failed, llm, idx, summaries, calls,
                  repo_summary, local, remote, http, pushed, others, raced, reported>>

\* a tool as list_tools gives it: its name, and the keys of the properties of
\* its inputSchema in their order
Tool(name, props) == [name |-> name, props |-> props]

\* ollama_server.py:13-32: handle_list_tools
GenerateCompletion == <<"g", "e", "n", "e", "r", "a", "t", "e", "_", "c", "o", "m", "p", "l", "e", "t", "i", "o", "n">>
OllamaTools == <<Tool(GenerateCompletion, <<"prompt", "model">>)>>

\* tools of other servers
OtherTools ==
    {Tool(<<"c", "h", "a", "t">>, <<"messages">>),
     Tool(<<"C", "h", "a", "t">>, <<"prompt">>),
     Tool(<<"s", "u", "m", "m", "a", "r", "i", "z", "e">>, <<"text">>),
     Tool(<<"c", "o", "m", "p", "l", "e", "t", "i", "o", "n">>, <<>>),
     Tool(<<"G", "e", "n", "e", "r", "a", "t", "e">>, <<"input", "prompt">>),
     Tool(<<"r", "e", "g", "e", "n", "e", "r", "a", "t", "e">>, <<"input">>),
     Tool(<<"s", "e", "a", "r", "c", "h">>, <<"query">>)}

ToolLists == UNION {[1..k -> OtherTools] : k \in 0..MaxTools}

\* str.lower() on the characters of these names
Lower(c) == CASE c = "C" -> "c" [] c = "G" -> "g" [] OTHER -> c
LowerCased(s) == [k \in 1..Len(s) |-> Lower(s[k])]

\* sub in s
Contains(s, sub) ==
    \E i \in 1..(Len(s) - Len(sub) + 1) : SubSeq(s, i, i + Len(sub) - 1) = sub

\* pr_generator.py:88
ExactNames == {<<"c", "h", "a", "t">>, <<"g", "e", "n", "e", "r", "a", "t", "e">>, <<"s", "u", "m", "m", "a", "r", "i", "z", "e">>, <<"c", "o", "m", "p", "l", "e", "t", "i", "o", "n">>}
\* pr_generator.py:97
LooksPromising(name) ==
    \/ Contains(LowerCased(name), <<"c", "h", "a", "t">>)
    \/ Contains(LowerCased(name), <<"g", "e", "n", "e", "r", "a", "t", "e">>)

RECURSIVE FirstExact(_, _)
\* pr_generator.py:87-90: the loop from tool k on; 0 stands for None
FirstExact(ts, k) ==
    IF k > Len(ts) THEN 0
    ELSE IF ts[k].name \in ExactNames THEN k ELSE FirstExact(ts, k + 1)

RECURSIVE FirstPromising(_, _)
\* pr_generator.py:96-99
FirstPromising(ts, k) ==
    IF k > Len(ts) THEN 0
    ELSE IF LooksPromising(ts[k].name) THEN k ELSE FirstPromising(ts, k + 1)

RECURSIVE FirstEither(_, _)
\* one loop in place of the two: the first tool that passes either test
FirstEither(ts, k) ==
    IF k > Len(ts) THEN 0
    ELSE IF ts[k].name \in ExactNames \/ LooksPromising(ts[k].name) THEN k
    ELSE FirstEither(ts, k + 1)

\* SelectTool with the two loops made one
SelectToolOneLoop(ts) == FirstEither(ts, 1)

\* pr_generator.py:86-99: target_tool, as an index into tools (0: None)
SelectTool(ts) ==
    IF FirstExact(ts, 1) # 0 THEN FirstExact(ts, 1) ELSE FirstPromising(ts, 1)

\* pr_generator.py:108-118: the prompt, and the message list that holds it
Prompt == "prompt text"
Messages == "[prompt text]"

\* a dict of arguments: a function from its keys to their values
NoArgs == [k \in {} |-> ""]
Arg(key, value) == [k \in {key} |-> value]

\* pr_generator.py:125-139: arguments by the properties of the tool's schema
BuildArguments(props) ==
    IF \E k \in 1..Len(props) : props[k] = "messages" THEN Arg("messages", Messages)
    ELSE IF \E k \in 1..Len(props) : props[k] = "prompt" THEN Arg("prompt", Prompt)
    ELSE IF \E k \in 1..Len(props) : props[k] = "text" THEN Arg("text", Prompt)
    ELSE IF props # <<>> THEN Arg(props[1], Prompt)
    ELSE NoArgs

\* lines the client prints
Banner == <<"GENERATED PR DESCRIPTION">>
Line(content) ==
    IF content.type = "text" THEN <<"text", content.text>>
    ELSE <<"other", content.type>>

TextContent(text) == [type |-> "text", text |-> text]
\* ollama_server.py:57 and 64: the texts of the results
Generated == <<"generated description">>
ErrorText == <<"Error: ", "backend failure">>

\* pr_generator.py:72: session.initialize()
Initialize ==
    /\ ppc = "connect"
    /\ session' = Append(session, "initialize")
    /\ \/ ppc' = "initialized"
       \* the request raises: the exception leaves generate_pr_description
       \/ ppc' = "raised"
    /\ UNCHANGED <<PipelineVars, tools, bundled, request, reply, chats, printed>>

\* pr_generator.py:75-103: session.list_tools() and the choice of the tool
ListTools ==
    /\ ppc = "initialized"
    /\ session' = Append(session, "list_tools")
    /\ \/ IF tools = <<>>
          THEN /\ printed' = Append(printed, <<"No tools found">>)
               /\ ppc' = "done"
          ELSE IF SelectTool(tools) = 0
          THEN /\ printed' = Append(printed, <<"No suitable tool">>)
               /\ ppc' = "done"
          ELSE /\ printed' = Append(printed, <<"Using tool", tools[SelectTool(tools)].name>>)
               /\ ppc' = "call"
       \/ /\ ppc' = "raised"
          /\ UNCHANGED printed
    /\ UNCHANGED <<PipelineVars, tools, bundled, request, reply, chats>>

\* pr_generator.py:125-142: the arguments, and session.call_tool sent
CallTool ==
    /\ ppc = "call"
    /\ LET t == tools[SelectTool(tools)]
       IN request' = <<[name |-> t.name, none |-> FALSE,
                        arguments |-> BuildArguments(t.props)]>>
    /\ session' = Append(session, "call_tool")
    /\ ppc' = "wait"
    /\ UNCHANGED <<PipelineVars, tools, bundled, reply, chats, printed>>

\* a call_tool request of another client of ollama_server.py
OtherRequests ==
    {[name |-> n, none |-> FALSE, arguments |-> a] :
        n \in {GenerateCompletion, <<"c", "h", "a", "t">>},
        a \in {NoArgs, Arg("prompt", ""), Arg("prompt", Prompt), Arg("model", "m"),
               [k \in {"prompt", "model"} |-> IF k = "prompt" THEN Prompt ELSE "m"]}}
    \cup {[name |-> n, none |-> TRUE, arguments |-> NoArgs] :
            n \in {GenerateCompletion, <<"c", "h", "a", "t">>}}

OtherCall ==
    /\ ppc = "other"
    /\ request' \in {<<r>> : r \in OtherRequests}
    /\ session' = Append(session, "call_tool")
    /\ ppc' = "other wait"
    /\ UNCHANGED <<PipelineVars, tools, bundled, reply, chats, printed>>

\* dict.get(key, default)
Get(d, key, default) == IF key \in DOMAIN d THEN d[key] ELSE default

\* ollama_server.py:38-46 and 68: the request is one the handler raises
\* ValueError for
Rejected(r) ==
    \/ r.name # GenerateCompletion
    \/ r.none \/ DOMAIN r.arguments = {}
    \/ Get(r.arguments, "prompt", "") = ""

Raised(msg) == [raised |-> TRUE, rpc_error |-> FALSE, content |-> <<TextContent(<<msg>>)>>]
Returned(content) == [raised |-> FALSE, rpc_error |-> FALSE, content |-> content]

\* HandleCallTool with no try around ollama.chat: its failure is raised
HandleCallToolNoTry ==
    /\ bundled /\ request # <<>> /\ reply = <<>>
    /\ LET r == request[1]
       IN IF Rejected(r)
          THEN /\ reply' = <<Raised("ValueError")>>
               /\ UNCHANGED chats
          ELSE LET call == [model |-> Get(r.arguments, "model", "llama3"),
                            content |-> r.arguments["prompt"]]
               IN \/ /\ chats' = Append(chats, call @@ [ok |-> TRUE])
                     /\ reply' = <<Returned(<<TextContent(Generated)>>)>>
                  \/ /\ chats' = Append(chats, call @@ [ok |-> FALSE])
                     /\ reply' = <<Raised("backend failure")>>
    /\ UNCHANGED <<PipelineVars, tools, bundled, ppc, session, request, printed>>

\* ollama_server.py:34-68: handle_call_tool
HandleCallTool ==
    /\ bundled /\ request # <<>> /\ reply = <<>>
    /\ LET r == request[1]
       IN IF Rejected(r)
          THEN /\ reply' = <<Raised("ValueError")>>
               /\ UNCHANGED chats
          ELSE LET call == [model |-> Get(r.arguments, "model", "llama3"),
                            content |-> r.arguments["prompt"]]
               IN \/ /\ chats' = Append(chats, call @@ [ok |-> TRUE])
                     /\ reply' = <<Returned(<<TextContent(Generated)>>)>>
                  \* ollama.chat raises, or its answer has no message content
                  \/ /\ chats' = Append(chats, call @@ [ok |-> FALSE])
                     /\ reply' = <<Returned(<<TextContent(ErrorText)>>)>>
    /\ UNCHANGED <<PipelineVars, tools, bundled, ppc, session, request, printed>>

\* the call_tool of another server: a result of any contents, or an error
ForeignCallTool ==
    /\ ~bundled /\ request # <<>> /\ reply = <<>>
    /\ \/ \E c \in {<<>>, <<TextContent(Generated)>>,
                    <<[type |-> "image", text |-> <<>>], TextContent(Generated)>>} :
             reply' = <<Returned(c)>>
       \/ reply' = <<[raised |-> FALSE, rpc_error |-> TRUE, content |-> <<>>]>>
    /\ UNCHANGED <<PipelineVars, tools, bundled, ppc, session, request, chats, printed>>

\* pr_generator.py:142-157: the result of session.call_tool is printed
PrintResult ==
    /\ ppc = "wait" /\ reply # <<>>
    /\ printed' =
         IF reply[1].rpc_error THEN Append(printed, <<"Error calling tool">>)
         ELSE printed \o <<Banner>> \o
              [k \in 1..Len(reply[1].content) |-> Line(reply[1].content[k])]
    /\ ppc' = "done"
    /\ UNCHANGED <<PipelineVars, tools, bundled, session, request, reply, chats>>

\* main.py is not run; the server is ollama_server.py or another one, the
\* client pr_generator.py or, for ollama_server.py, another one
InitPr ==
    /\ repo = [n |-> 0, desc |-> <<>>, parent |-> <<>>, single |-> FALSE]
    /\ cfg = [filter |-> NoFilter, push |-> FALSE, token |-> FALSE]
    /\ Start
    /\ \/ bundled = TRUE /\ tools = OllamaTools /\ ppc \in {"connect", "other"}
       \/ bundled = FALSE /\ tools \in ToolLists /\ ppc = "connect"
    /\ session = <<>>
    /\ request = <<>>
    /\ reply = <<>>
    /\ chats = <<>>
    /\ printed = <<>>

NextPr ==
    \/ Initialize
    \/ ListTools
    \/ CallTool
    \/ OtherCall
    \/ HandleCallTool
    \/ ForeignCallTool
    \/ PrintResult

SpecPr == InitPr /\ [][NextPr]_vars

-----------------------------------------------------------------------------
(* Reference definitions for the properties below *)

\* an exception left fetch_recursive, fetch_files and main
FetchRaised == pc = "crashed" /\ stack # <<>>
FetchReturned == pc # "fetch" /\ ~FetchRaised
\* an exception left push_summary_to_github and main
PublishRaised == pc = "crashed" /\ stack = <<>>
Paths == {files[k].path : k \in 1..Len(files)}
FileEntries == {e \in Entries(repo) : repo.desc[e].type = "file"}

\* the extension of a name as the specification words it: from the last "."
\* to the end, including the dot
Suffix(name) ==
    LET d == LastDot(name, Len(name))
    IN IF d = 0 THEN <<>> ELSE SubSeq(name, d, Len(name))

RECURSIVE RootPath(_)
\* the entries from the root listing down to e
RootPath(e) ==
    IF repo.parent[e] = 0 THEN <<e>> ELSE Append(RootPath(repo.parent[e]), e)

\* position of e in the listing that holds it
Pos(e) ==
    LET l == Listing(repo, repo.parent[e])
    IN CHOOSE k \in 1..Len(l) : l[k] = e

\* a comes before b in depth-first pre-order: where their paths from the root
\* part, a's branch is listed before b's
Before(a, b) ==
    LET pa == RootPath(a)
        pb == RootPath(b)
    IN \E k \in 1..Len(pa) :
          /\ k <= Len(pb)
          /\ \A j \in 1..(k - 1) : pa[j] = pb[j]
          /\ pa[k] # pb[k]
          /\ Pos(pa[k]) < Pos(pb[k])

Depth(e) == Len(RootPath(e))

RECURSIVE RefFetch(_, _, _)
\* the records of the entries in items[i..], in order, when the one locator
\* `lost` contributes nothing and every other request succeeds
RefFetch(items, i, lost) ==
    IF i > Len(items) THEN <<>>
    ELSE LET e == items[i]
             d == repo.desc[e]
             here ==
               IF d.type = "file"
               THEN IF Keeps(cfg.filter, d.name) /\ lost # <<"download_url", e>>
                    THEN <<[name |-> d.name, path |-> e,
                            content |-> ResolveContent(e, "ok")]>>
                    ELSE <<>>
               ELSE IF d.type = "dir" /\ lost # <<"url", e>>
               THEN RefFetch(Listing(repo, e), 1, lost)
               ELSE <<>>
         IN here \o RefFetch(items, i + 1, lost)

RefRecords(lost) ==
    IF lost = <<"url", 0>> THEN <<>>
    ELSE RefFetch(Listing(repo, 0), 1, lost)

LostLocator == <<failed[1][1], failed[1][2]>>

-----------------------------------------------------------------------------
(* C1 *)

EachOnce == \A j, k \in 1..Len(files) : files[j].path = files[k].path => j = k

-----------------------------------------------------------------------------
(* C2 *)

\* C2: the records are in depth-first pre-order at every moment of the
\* traversal: siblings in listing order, the whole subtree of a directory
\* before any later sibling of that directory.
C2_PreOrder ==
    \A j, k \in 1..Len(files) : j < k => Before(files[j].path, files[k].path)

\* the record of a file inside a directory precedes that of a later sibling of
\* the directory which the host lists one level higher
C2_Witness ==
    /\ FetchReturned
    /\ \E j, k \in 1..Len(files) :
          /\ j < k
          /\ Depth(files[j].path) > Depth(files[k].path)
          /\ files[j].path > files[k].path

-----------------------------------------------------------------------------
(* C3 *)

\* C3 as stated: when exactly one locator fails, the records are those of a
\* failure-free run minus the records of the subtree of the failed locator,
\* in the same order.
C3_OneFailure ==
    (FetchReturned /\ Len(failed) = 1) => files = RefRecords(LostLocator)

-----------------------------------------------------------------------------
(* C4 *)

LoopDone == llm /\ idx > Len(files)

RECURSIVE Survivors(_)
\* the entries of the first k files whose summarization call succeeded
Survivors(k) ==
    IF k = 0 THEN <<>>
    ELSE IF calls[k].ok
         THEN Append(Survivors(k - 1),
                     [filename |-> files[k].name, path |-> files[k].path,
                      summary |-> SummaryText(files[k])])
         ELSE Survivors(k - 1)

FailedSummaries == {k \in 1..Len(files) : k <= Len(calls) /\ ~calls[k].ok}

\* C4: after the loop the summaries are exactly the fetched files whose call
\* succeeded, in order, with no placeholder (n - 1 entries when one of n
\* failed), and the run goes on to the aggregation call.
C4_Isolation ==
    LoopDone =>
        /\ summaries = Survivors(Len(files))
        /\ Len(summaries) = Len(files) - Cardinality(FailedSummaries)
        /\ pc # "summarize" =>
              /\ Len(calls) = Len(files) + 1
              /\ calls[Len(calls)].op = "aggregate"

\* exactly one of two or more files failed and aggregation was called
C4_Witness ==
    /\ LoopDone /\ pc # "summarize"
    /\ Len(files) >= 2
    /\ Cardinality(FailedSummaries) = 1
    /\ Len(summaries) = Len(files) - 1

-----------------------------------------------------------------------------
(* C5 *)

\* C5 as stated: generate_repo_summary is never called on an empty summaries
\* list.
C5_NoEmptyAggregate ==
    \A k \in 1..Len(calls) : calls[k].op = "aggregate" => calls[k].arg # <<>>

-----------------------------------------------------------------------------
(* C6 *)

Puts == {k \in 1..Len(http) : http[k].method = "PUT"}

\* C6: the PUT body has a sha exactly when the GET before it answered 200,
\* and then it is the sha of that response.
C6_ShaIffFound ==
    \A k \in Puts :
        /\ k > 1 /\ http[k - 1].method = "GET"
        /\ HasSha(http[k].body) <=> http[k - 1].status = 200
        /\ HasSha(http[k].body) => http[k].body.sha = http[k - 1].sha

\* a PUT that echoes the token of a 200 GET
C6_Witness ==
    \E k \in Puts : http[k - 1].status = 200 /\ HasSha(http[k].body)

-----------------------------------------------------------------------------
(* C7 *)

Is2xx(status) == 200 <= status /\ status < 300

\* C7 as stated: push_summary_to_github returns True only for a 2xx PUT,
\* False for every other PUT response and every transport failure, and no
\* exception leaves it.
C7_NeverRaises ==
    /\ ~PublishRaised
    /\ (pc = "complete" /\ http # <<>>) =>
          /\ pushed \in {"True", "False"}
          /\ pushed = "True" <=> /\ http[Len(http)].method = "PUT"
                                 /\ Is2xx(http[Len(http)].status)

-----------------------------------------------------------------------------
(* C8 *)

RacedPut == raced /\ \E k \in Puts : http[k].rule

\* C8 as stated: when another actor writes SUMMARY.md between the GET and the
\* PUT and the host applies its hash-token rule, the PUT succeeds and the
\* remote file holds the publisher's document.
C8_LastWriteWins ==
    RacedPut => /\ pushed = "True"
                /\ remote.content = Encode(local)

\* C8 amended: the race is not handled and the other actor's write wins: the
\* PUT carries only what the GET captured, the host refuses it (409 or 422),
\* push_summary_to_github returns False, the remote file keeps the other
\* actor's content and the local SUMMARY.md keeps the document.
C8_FirstWriteWins ==
    RacedPut => /\ \A k \in Puts : http[k].status \in {409, 422}
                /\ pushed = "False"
                /\ remote.content = <<"other">>
                /\ local = Assemble(repo_summary, summaries)

\* the file was changed by another actor after a GET that answered 200
C8_Witness ==
    /\ RacedPut
    /\ \E k \in Puts : http[k - 1].status = 200 /\ http[k].status = 409

-----------------------------------------------------------------------------
(* C9 *)

\* C9: a fetch that yields no record ends the run without error before the
\* backend is initialised: no backend call, no local write, no publish request.
C9_EmptyHalts ==
    (FetchReturned /\ files = <<>>) =>
        /\ pc = "done"
        /\ ~llm
        /\ calls = <<>>
        /\ local = NoText
        /\ http = <<>>
        /\ pushed = None

\* a filter that matches none of the files of a tree that has some
C9_Witness ==
    /\ FetchReturned /\ files = <<>>
    /\ failed = <<>>
    /\ FileEntries # {}
    /\ cfg.push /\ cfg.token

-----------------------------------------------------------------------------
(* C10 *)

AggregateFailed == \E k \in 1..Len(calls) : calls[k].op = "aggregate" /\ ~calls[k].ok

\* C10: a failed aggregation call ends the run: no document, no local
\* SUMMARY.md, no publish request, the failure reported, no exception.
C10_AggregateFatal ==
    AggregateFailed =>
        /\ pc = "done"
        /\ repo_summary = NoText
        /\ local = NoText
        /\ http = <<>>
        /\ pushed = None
        /\ "aggregate" \in reported

\* aggregation failed over a non-empty summaries list in a run set to publish
C10_Witness ==
    /\ AggregateFailed
    /\ summaries # <<>>
    /\ cfg.push /\ cfg.token

-----------------------------------------------------------------------------
(* C11 *)

\* C11 as stated: no failure crosses the boundary of the fetch stage: whatever
\* the host answers while fetch_files runs (failed request, body that is not
\* JSON or not a file descriptor, descriptor lacking a key, inline payload that
\* is not base64 or not UTF-8), no exception leaves fetch_files.
C11_FetchNeverRaises == ~FetchRaised

-----------------------------------------------------------------------------
(* C12 *)

\* the per-file sections of the document in SUMMARY.md
Sections == local[3]

\* C12: the per-file sections of the document are, in order, the fetched files
\* whose summarization call succeeded (traversal order, none added, dropped,
\* moved or repeated), and the aggregation call received that same list.
C12_SectionsInOrder ==
    local # NoText =>
        LET kept == Survivors(Len(files))
        IN /\ Len(Sections) = Len(kept)
           /\ \A k \in 1..Len(kept) :
                 Sections[k] = <<kept[k].filename, kept[k].summary>>
           /\ calls[Len(files) + 1].op = "aggregate"
           /\ calls[Len(files) + 1].arg = kept

\* a file of the root and a file of a directory were fetched, the call for
\* the second failed: the document has the one section of the first, and
\* aggregation received a list of one entry
C12_Witness ==
    /\ local # NoText
    /\ Len(files) = 2
    /\ Depth(files[1].path) = 1 /\ Depth(files[2].path) = 2
    /\ calls[1].ok /\ ~calls[2].ok
    /\ Len(Sections) = 1
    /\ Sections[1][1] = files[1].name
    /\ Len(calls[3].arg) = 1

-----------------------------------------------------------------------------
(* C13 *)

\* C13: when publishing is requested and no credential is set, the publish
\* step is skipped: no GET and no PUT is ever issued, and once SUMMARY.md is
\* written with the document the skip is reported and the run is complete.
C13_NoTokenSkips ==
    (cfg.push /\ ~cfg.token) =>
        /\ http = <<>>
        /\ pushed = None
        /\ pc \notin {"get", "put"}
        /\ local # NoText =>
              /\ local = Assemble(repo_summary, summaries)
              /\ pc = "complete"
              /\ "no token" \in reported

\* a run asked to publish without a credential has written a document with a
\* section and is complete
C13_Witness ==
    /\ cfg.push /\ ~cfg.token
    /\ pc = "complete"
    /\ local # NoText /\ Len(Sections) >= 1
    /\ http = <<>>

-----------------------------------------------------------------------------
(* C14 *)

\* push_summary_to_github has been called
PublishBegan == pc \in {"get", "put"} \/ http # <<>>

\* the document stays in SUMMARY.md and is what every PUT carries
LocalKept ==
    /\ local = Assemble(repo_summary, summaries)
    /\ \A k \in 1..Len(http) :
          http[k].method = "PUT" => http[k].body.content = Encode(local)

\* C14 as stated: publishing never changes the document or the local file:
\* the PUT carries the base64 of exactly the document written locally, and
\* whether the publish step succeeds or fails SUMMARY.md keeps that content
\* and the run completes normally.
C14_PublishKeepsLocal ==
    PublishBegan => LocalKept /\ ~PublishRaised

-----------------------------------------------------------------------------
(* C15 *)

\* push_summary_to_github is past its GET: at the PUT, returned, or left by
\* an exception
PastGet == pc = "put" \/ pushed # None \/ PublishRaised

\* C15: a call of push_summary_to_github issues exactly one GET and at most
\* one PUT, the GET first, and a PUT only after the GET returned a response.
C15_GetThenPut ==
    /\ Len(http) <= 2
    /\ PastGet => Len(http) >= 1
    /\ Len(http) >= 1 => http[1].method = "GET"
    /\ Len(http) = 2 => /\ http[2].method = "PUT"
                        /\ http[1].status # 0

\* the call returned after a GET and a PUT
C15_Witness ==
    /\ pushed # None
    /\ Len(http) = 2
    /\ http[1].method = "GET" /\ http[2].method = "PUT"

-----------------------------------------------------------------------------
(* C16, under SpecFile *)

\* the one file entry of the tree, and its inline payload
Probe == repo.desc[1]
Payload == Probe.content[1]

\* fetch_files returned the record of the entry with its inline payload decoded
InlineFetched ==
    /\ FetchReturned /\ Len(files) = 1
    /\ Probe.download_url = "absent" /\ Probe.content # <<>>

\* what push_summary_to_github's encoding (main.py:230) gives for a text
Reencoded(text) == b64encode(utf8_encode(text))

\* a base64 text as b64encode writes it: characters of the alphabet in groups
\* of four, the last group padded with one or two "=", unused bits zero
Canonical(p) ==
    LET n == Len(p) IN
    /\ n % 4 = 0
    /\ \A k \in 1..n : p[k] <= Pad /\ (p[k] = Pad => k >= n - 1)
    /\ (n > 0 /\ p[n - 1] = Pad) => p[n] = Pad /\ p[n - 2] % 16 = 0
    /\ (n > 0 /\ p[n] = Pad /\ p[n - 1] # Pad) => p[n - 1] % 4 = 0

\* C16 as stated: for every inline payload whose decoded bytes are valid
\* UTF-8, decoding it as fetch_files does and encoding the text again as
\* push_summary_to_github does gives back the payload.
C16_RoundTrip ==
    InlineFetched => Reencoded(files[1].content) = Payload

\* C16 amended: the same for every payload in canonical form (no character
\* outside the alphabet such as a line feed, padded to groups of four,
\* unused bits zero).
C16_CanonicalRoundTrip ==
    (InlineFetched /\ Canonical(Payload)) => Reencoded(files[1].content) = Payload

\* a canonical payload that holds a character of two UTF-8 bytes
C16_Witness ==
    /\ InlineFetched /\ Canonical(Payload)
    /\ files[1].content = <<128>>
    /\ Len(b64decode(Payload).bytes) = 2

-----------------------------------------------------------------------------
(* C17, under SpecFile *)

\* fetch_files returned and no request failed: the filter alone decided
\* whether the entry has a record
Decided == FetchReturned /\ failed = <<>>
Kept == Len(files) = 1
\* file_extensions is a list that holds an extension
Filtering == cfg.filter.given /\ cfg.filter.list # <<>>

\* C17 as stated: with a filter configured the entry is kept exactly if the
\* part of its name from the last "." to the end is in the filter, for every
\* name: without a dot, with a leading dot only, with several dots.
C17_SuffixFilter ==
    (Decided /\ Filtering) =>
        (Kept <=> InList(Suffix(Probe.name), cfg.filter.list))

\* the dot that starts the extension of a name: the last one, if a character
\* other than "." comes before it
ExtDots(name) ==
    {d \in 1..Len(name) :
        /\ name[d] = "."
        /\ \A k \in (d + 1)..Len(name) : name[k] # "."
        /\ \E k \in 1..(d - 1) : name[k] # "."}

\* C17 amended: with a non-empty filter configured the entry is kept exactly
\* if its extension is in the filter, compared exactly and with case, where
\* the extension is the part of the name from the last "." to the end if a
\* character other than "." comes before that dot, and is empty otherwise.
C17_ExtensionFilter ==
    (Decided /\ Filtering) =>
        (Kept <=> \/ \E d \in ExtDots(Probe.name) :
                        InList(SubSeq(Probe.name, d, Len(Probe.name)), cfg.filter.list)
                  \/ ExtDots(Probe.name) = {} /\ InList(<<>>, cfg.filter.list))

\* the name ".py" under the filter [".py"]: the entry is not kept
C17_Witness ==
    /\ Decided /\ ~Kept
    /\ Probe.name = PyExt
    /\ cfg.filter = ExtList(<<PyExt>>)

-----------------------------------------------------------------------------
(* C18, under SpecFile *)

\* fetch_files returned, the listing request succeeded, and so did the
\* download where the entry has a URL to download from
Resolved ==
    /\ FetchReturned
    /\ \A k \in 1..Len(failed) : failed[k][1] # "url"
    /\ Probe.download_url = "url" => failed = <<>>

\* C18 as stated: a kept entry gets exactly one record, whose content is the
\* text of the download URL when the entry has one, otherwise the decoded
\* inline payload when it has one (also when download_url is absent or
\* null), otherwise the empty string.
C18_Precedence ==
    (Resolved /\ Keeps(cfg.filter, Probe.name)) =>
        /\ Len(files) = 1
        /\ files[1].content =
              IF Probe.download_url = "url" THEN UrlText
              ELSE IF Probe.content # <<>> THEN DecodeInline(Payload).text
              ELSE <<>>

-----------------------------------------------------------------------------
(* C19 *)

\* the run is over: main returned, or an exception ended it
RunOver == pc \in {"done", "complete", "crashed"}

CallsOf(op) == {k \in 1..Len(calls) : calls[k].op = op}

\* C19 as stated: a run with n >= 1 fetched files makes exactly n
\* summarization calls, the k-th for the k-th file, then at most one
\* aggregation call: never more than n + 1 backend calls.
C19_Original ==
    (FetchReturned /\ Len(files) >= 1) =>
        /\ Len(calls) <= Len(files) + 1
        /\ \A k \in 1..Len(calls) :
              IF k <= Len(files)
              THEN calls[k].op = "summarize" /\ calls[k].arg = files[k].path
              ELSE calls[k].op = "aggregate"
        /\ RunOver => Cardinality(CallsOf("summarize")) = Len(files)

\* C19 amended: the same for a run in which the backend client was
\* constructed; a run in which its construction failed makes no backend call.
C19_CallBudget ==
    (FetchReturned /\ Len(files) >= 1) =>
        /\ Len(calls) <= Len(files) + 1
        /\ \A k \in 1..Len(calls) :
              IF k <= Len(files)
              THEN calls[k].op = "summarize" /\ calls[k].arg = files[k].path
              ELSE calls[k].op = "aggregate"
        /\ RunOver =>
              IF llm THEN Cardinality(CallsOf("summarize")) = Len(files)
              ELSE calls = <<>> /\ "llm" \in reported

\* a finished run over two or more files, one of whose calls failed: one call
\* for each file and the aggregation call
C19_Witness ==
    /\ RunOver /\ llm
    /\ Len(files) >= 2
    /\ \E k \in 1..Len(files) : ~calls[k].ok
    /\ Len(calls) = Len(files) + 1

-----------------------------------------------------------------------------
(* C20 *)

\* C20: the stages follow one another and never overlap: every read of the
\* repository is over before the first backend call, every summarization call
\* before the aggregation call, the aggregation call before SUMMARY.md is
\* written, and SUMMARY.md is written before the publisher's first request.
C20_StageOrder ==
    /\ (calls # <<>> \/ llm) => /\ FetchReturned
                                /\ stack = <<>>
    /\ \A k \in CallsOf("aggregate") :
          /\ k = Len(calls)
          /\ k = Len(files) + 1
          /\ idx > Len(files)
    /\ local # NoText => /\ CallsOf("aggregate") # {}
                         /\ calls[Len(calls)].ok
                         /\ repo_summary # NoText
    /\ (PublishBegan \/ others > 0) => local # NoText
    /\ pc \in {"fetch", "init", "summarize"} => local = NoText /\ http = <<>>
    /\ pc = "write" => http = <<>>

\* a run through all five stages: two or more files read, a call for each,
\* the aggregation call, SUMMARY.md written, GET and PUT made
C20_Witness ==
    /\ pc = "complete"
    /\ Len(files) >= 2
    /\ Len(calls) = Len(files) + 1
    /\ local # NoText
    /\ Len(http) = 2

-----------------------------------------------------------------------------
(* C21, under SpecFile *)

\* the call of fetch_files is over, and the request for the root was answered
\* with the entry: as the one element of an array, or as a bare object
RootAnswered ==
    /\ pc # "fetch"
    /\ \A k \in 1..Len(failed) : failed[k][1] # "url"

\* what fetch_files gives for a listing that holds only the entry: whether an
\* exception leaves it, and the records it returns; the filter first, then the
\* content by the answer the download got (in `failed` when it was not 200)
ListingOutcome ==
    LET rec(c) == [raised |-> FALSE, records |-> <<Record(1, c)>>]
        none == [raised |-> FALSE, records |-> <<>>]
    IN IF ~Keeps(cfg.filter, Probe.name) THEN none
       ELSE IF Probe.download_url = "null" THEN none
       ELSE IF Probe.download_url = "url"
       THEN IF failed = <<>> THEN rec(UrlText)
            ELSE IF failed[1][3] = "status" THEN rec(ErrorBody) ELSE none
       ELSE IF Probe.content = <<>> THEN rec(<<>>)
       ELSE IF DecodeInline(Payload).ok THEN rec(DecodeInline(Payload).text)
       ELSE [raised |-> TRUE, records |-> <<>>]

\* C21: a root answered as a bare file descriptor gives exactly what a
\* listing of that one descriptor gives, under the same filter and the same
\* rules for the content: the two kinds of run have the same outcome.
C21_SingleAsListing ==
    RootAnswered => [raised |-> FetchRaised, records |-> files] = ListingOutcome

\* a root answered as a bare descriptor with an inline payload: one record
\* with the decoded text
C21_Witness ==
    /\ repo.single /\ RootAnswered
    /\ Probe.download_url = "absent" /\ Probe.content # <<>>
    /\ Len(files) = 1 /\ files[1].content = <<65>>
-----------------------------------------------------------------------------
(* C22, under SpecPr *)

\* the client is pr_generator.py
PrClient == ppc \in {"connect", "initialized", "call", "wait", "done", "raised"}

IsPrefix(a, b) == Len(a) <= Len(b) /\ \A k \in 1..Len(a) : a[k] = b[k]
Called == \E k \in 1..Len(session) : session[k] = "call_tool"

Least(S) == CHOOSE x \in S : \A y \in S : x <= y
ExactTools == {k \in 1..Len(tools) : tools[k].name \in ExactNames}
PromisingTools == {k \in 1..Len(tools) : LooksPromising(tools[k].name)}

\* the tool the claim names: the first with an exact name, and only if there
\* is none the first whose name looks promising; 0 if there is neither
Chosen ==
    IF ExactTools # {} THEN Least(ExactTools)
    ELSE IF PromisingTools # {} THEN Least(PromisingTools)
    ELSE 0

\* C22: the session's requests are initialize, list_tools, call_tool in this
\* order, call_tool at most once and only for a selected tool: the first
\* listed tool named chat, generate, summarize or completion, and only if
\* there is none the first whose lower-cased name contains "chat" or
\* "generate"; with no such tool, or no tool, there is no call_tool.  With
\* ollama_server.py the tool is generate_completion and the prompt goes
\* under "prompt".
C22_ToolSelection ==
    PrClient =>
        /\ IsPrefix(session, <<"initialize", "list_tools", "call_tool">>)
        /\ Called <=> request # <<>>
        /\ Called => /\ Chosen # 0
                     /\ request[1].name = tools[Chosen].name
        /\ ppc = "done" => (Called <=> Chosen # 0)
        /\ (bundled /\ Called) =>
              /\ request[1].name = GenerateCompletion
              /\ ~request[1].none
              /\ request[1].arguments = Arg("prompt", Prompt)

\* a tool whose name only contains "chat" is listed before one named
\* summarize: the call went to summarize, and the run is over
C22_Witness ==
    /\ PrClient /\ ppc = "done" /\ Called
    /\ Len(tools) >= 2
    /\ tools[1].name = <<"C", "h", "a", "t">>
    /\ tools[2].name = <<"s", "u", "m", "m", "a", "r", "i", "z", "e">>
    /\ request[1].name = <<"s", "u", "m", "m", "a", "r", "i", "z", "e">>
-----------------------------------------------------------------------------
(* C23, under SpecPr *)

\* handle_call_tool answered the request
Handled == bundled /\ reply # <<>>
BackendFailed == chats # <<>> /\ ~chats[Len(chats)].ok

\* the request names generate_completion and has arguments, not empty, with
\* a prompt, not empty
WellFormedCall ==
    /\ request # <<>>
    /\ request[1].name = GenerateCompletion
    /\ ~request[1].none
    /\ DOMAIN request[1].arguments # {}
    /\ "prompt" \in DOMAIN request[1].arguments
    /\ request[1].arguments["prompt"] # ""

\* C23: handle_call_tool calls the backend only for generate_completion with
\* arguments and a prompt that are not empty; for another name, for missing
\* arguments or a missing or empty prompt it raises and makes no backend call;
\* a failure of the backend is never raised but returned as one text result
\* that begins with "Error: ", which pr_generator prints as text under the
\* banner, as it prints a generated description.
C23_BackendErrorAsText ==
    /\ Len(chats) <= 1
    /\ chats # <<>> => /\ bundled /\ WellFormedCall
                      /\ chats[1].content = request[1].arguments["prompt"]
    /\ Handled => /\ reply[1].raised <=> ~WellFormedCall
                  /\ reply[1].raised => chats = <<>>
                  /\ ~reply[1].raised => Len(chats) = 1
    /\ (Handled /\ BackendFailed) =>
          /\ ~reply[1].raised /\ ~reply[1].rpc_error
          /\ Len(reply[1].content) = 1
          /\ reply[1].content[1].type = "text"
          /\ reply[1].content[1].text[1] = "Error: "
    /\ (Handled /\ PrClient /\ ppc = "done") =>
          /\ Len(printed) = 3
          /\ printed[2] = Banner
          /\ printed[3] = <<"text", reply[1].content[1].text>>

\* pr_generator.py ran against ollama_server.py, the backend failed, and the
\* text under the banner begins with "Error: "
C23_Witness ==
    /\ Handled /\ PrClient /\ ppc = "done"
    /\ BackendFailed
    /\ printed[2] = Banner
    /\ printed[3][1] = "text" /\ printed[3][2][1] = "Error: "
====
